---- MODULE Spec2Model ----
(***************************************************************************)
(* The one-sided-commitment economy of RMT/Chapter20/Chp20Specification.py *)
(* as a state machine: construction of the model object, the two backward  *)
(* passes of solve() step by step, and simulate() with fix_indexes.        *)
(*                                                                         *)
(* Numbers.  The code computes in floating point; the model computes in    *)
(* exact arithmetic.  A real number that is a utility, a probability or an *)
(* income is a rational [n, d].  gamma is measured in units of ln 2 and    *)
(* utilities in units of 1/ln 2, so that exp(-gamma*c) = 2^(-gamma*c) is a *)
(* rational on the income grid.  A consumption level is a record [r, q]    *)
(* that stands for r + log(q)/(-gamma): uinv stores the argument of its    *)
(* logarithm and u exponentiates it again.  The lender's values are linear *)
(* in the consumption levels g1[j] and are carried as linear forms         *)
(* [c, k] that stand for c + SUM_j k[j]*g1[j].                              *)
(***************************************************************************)
EXTENDS Integers, Sequences, FiniteSets, TLC

MaxNy == 3   \* largest grid size ny passed to the constructor
MaxT  == 3   \* largest horizon T passed to simulate

VARIABLES
    pc,                  \* where the caller is: new, built, agent, lender, solved, simulated, error
    args,                \* the constructor's arguments (beta, gamma, ymin, ymax, ny, lamb)
    beta, gamma,         \* self.beta, self.gamma
    ybar, pi_y,          \* self.ybar, self.pi_y
    v_aut,               \* self.v_aut
    c_complete_markets,  \* self.c_complete_markets
    s,                   \* the loop variable of solve()'s current pass
    g1, l1, P,           \* solve()'s buffers
    trace,               \* what solve() has read and written so far
    sim                  \* the last simulate() call: its arguments, draws and outcome

vars == <<pc, args, beta, gamma, ybar, pi_y, v_aut, c_complete_markets,
          s, g1, l1, P, trace, sim>>

model == <<beta, gamma, ybar, pi_y, v_aut, c_complete_markets>>

----------------------------------------------------------------------------
(* Exact arithmetic on rationals [n, d], d > 0, in lowest terms.            *)

Abs(x) == IF x < 0 THEN -x ELSE x

\* The binary operations below evaluate both arguments once, to values,
\* before they compute with them (as a call on floats does): the wrapper
\* Op(a, b) binds the values and applies the operation proper.

RECURSIVE Gcd(_, _)
GcdStep(a, b) == IF b = 0 THEN a ELSE Gcd(b, a % b)
Gcd(a, b) == CHOOSE r \in {GcdStep(x, y) : x \in {a}, y \in {b}} : TRUE

RatReduce(n, d) ==
    LET g == Gcd(Abs(n), Abs(d))
        sg == IF d < 0 THEN -1 ELSE 1
    IN  [n |-> sg * (n \div g), d |-> sg * (d \div g)]
Rat(n, d) == CHOOSE r \in {RatReduce(x, y) : x \in {n}, y \in {d}} : TRUE

R(n) == [n |-> n, d |-> 1]
Zero == R(0)
One == R(1)

RNeg(a) == [n |-> -a.n, d |-> a.d]
RAddExact(a, b) ==
    LET g == Gcd(a.d, b.d)
    IN  Rat(a.n * (b.d \div g) + b.n * (a.d \div g), (a.d \div g) * b.d)
RAdd(a, b) == CHOOSE r \in {RAddExact(x, y) : x \in {a}, y \in {b}} : TRUE
RSub(a, b) == RAdd(a, RNeg(b))
RMulExact(a, b) ==
    LET x == Rat(a.n, b.d)
        y == Rat(b.n, a.d)
    IN  [n |-> x.n * y.n, d |-> x.d * y.d]
RMul(a, b) == CHOOSE r \in {RMulExact(x, y) : x \in {a}, y \in {b}} : TRUE
RInv(b) == Rat(b.d, b.n)
RDiv(a, b) == RMul(a, RInv(b))
RLeExact(a, b) == RSub(a, b).n <= 0
RLe(a, b) == CHOOSE r \in {RLeExact(x, y) : x \in {a}, y \in {b}} : TRUE
RLtExact(a, b) == RSub(a, b).n < 0
RLt(a, b) == CHOOSE r \in {RLtExact(x, y) : x \in {a}, y \in {b}} : TRUE
RGe(a, b) == RLe(b, a)

RECURSIVE RPow(_, _)
RPow(a, k) == IF k = 0 THEN One ELSE RMul(a, RPow(a, k - 1))

\* 2^e for an integer e of either sign: np.exp in the model's units.
Exp2(e) == IF e >= 0 THEN RPow(R(2), e) ELSE RPow(Rat(1, 2), -e)

\* np.sum / np.dot over the index range lo..hi of 0-based arrays.
RECURSIVE RSum(_, _, _)
RSum(f, lo, hi) == IF lo > hi THEN Zero ELSE RAdd(f[lo], RSum(f, lo + 1, hi))

dot(a, b, lo, hi) == RSum([j \in lo..hi |-> RMul(a[j], b[j])], lo, hi)

----------------------------------------------------------------------------
(* Consumption levels: [r, q] stands for r + log(q)/(-gamma).               *)

Num(r) == [r |-> r, q |-> One]

\* up = lambda c: np.exp(-gamma*c)
up(gam, c) ==
    LET e == RMul(RNeg(gam), c.r)
    IN  RMul(c.q, Exp2(e.n))

\* u = lambda c: np.exp(-gamma*c)/(-gamma)
u(gam, c) == RDiv(up(gam, c), RNeg(gam))

\* uinv = lambda _u: np.log(-gamma*_u) / (-gamma)
\* (an argument of the logarithm that is not positive stands for nan/-inf)
uinv(gam, x) == [r |-> Zero, q |-> RMul(RNeg(gam), x)]

\* upinv = lambda _up: np.log(_up) / (-gamma)
upinv(gam, x) == [r |-> Zero, q |-> x]

\* c1 <= c2 as real numbers: exp(-gamma*c) is decreasing in c when gamma > 0
\* and increasing when gamma < 0.
CLe(gam, c1, c2) ==
    IF gam.n > 0 THEN RGe(up(gam, c1), up(gam, c2))
                 ELSE RLe(up(gam, c1), up(gam, c2))
CEq(gam, c1, c2) == up(gam, c1) = up(gam, c2)

----------------------------------------------------------------------------
(* get_primitives and the constructor.                                      *)

\* np.linspace(ymin, ymax, ny)
linspace(ymin, ymax, n) ==
    [i \in 0..(n - 1) |->
        IF n = 1 THEN ymin
        ELSE RAdd(ymin, RDiv(RMul(R(i), RSub(ymax, ymin)), R(n - 1)))]

\* 1 - lamb**ny, the denominator of pi_y; the division raises when it is 0
PiDenominator(a) == RSub(One, RPow(a.lamb, a.ny))

\* pi_y = (1-lamb)/(1-lamb**ny) * lamb**(np.arange(ny))
piWeights(a) ==
    [i \in 0..(a.ny - 1) |->
        RMul(RDiv(RSub(One, a.lamb), PiDenominator(a)), RPow(a.lamb, i))]

\* self.v_aut = (1/(1-beta)) * np.dot(self.u(self.ybar), self.pi_y)
autarky(a, yb, pw) ==
    RMul(RDiv(One, RSub(One, a.beta)),
         dot([j \in 0..(a.ny - 1) |-> u(a.gamma, Num(yb[j]))], pw, 0, a.ny - 1))

\* The constructor's arguments the model tries.  The grids are those on
\* which exp(-gamma*ybar[s]) is an exact rational in the model's units.
Betas  == {Rat(1, 2), Rat(3, 4)}
Gammas == {R(1), R(2)}
Grids  == {<<R(0), R(6)>>, <<R(1), R(7)>>, <<R(6), R(6)>>, <<R(6), R(0)>>}
Lambs  == {Rat(1, 2), Rat(1, 4), R(1), R(2)}

GridExact(a) ==
    \A i \in 0..(a.ny - 1) :
        RMul(a.gamma, linspace(a.ymin, a.ymax, a.ny)[i]).d = 1

Arguments ==
    {a \in [beta : Betas, gamma : Gammas, ymin : {g[1] : g \in Grids},
            ymax : {g[2] : g \in Grids}, ny : 1..MaxNy, lamb : Lambs] :
        /\ <<a.ymin, a.ymax>> \in Grids
        /\ GridExact(a)}

\* The parameter constraints of the specification (sections 3 and 4.1).
ValidArguments(a) ==
    /\ RLt(Zero, a.beta) /\ RLt(a.beta, One)
    /\ RLt(Zero, a.gamma)
    /\ RLt(a.ymin, a.ymax)
    /\ a.ny >= 2
    /\ RLt(Zero, a.lamb) /\ RLt(a.lamb, One)

NoArgs == [beta |-> Zero, gamma |-> Zero, ymin |-> Zero, ymax |-> Zero,
           ny |-> 0, lamb |-> Zero]

NoSim == [T |-> 0, glen |-> 0, llen |-> 0, realized |-> <<>>, fixed |-> <<>>,
          res |-> "none", c |-> <<>>, w |-> <<>>, y |-> <<>>]

NoTrace == [agent |-> 0, lender |-> 0, pass |-> "none", step |-> -1, reads |-> {},
            fresh |-> {}, uninit |-> FALSE,
            wg1 |-> <<>>, wl1 |-> <<>>, wP |-> <<>>]

Init ==
    /\ pc = "new"
    /\ args = NoArgs
    /\ beta = Zero /\ gamma = Zero
    /\ ybar = <<>> /\ pi_y = <<>>
    /\ v_aut = Zero /\ c_complete_markets = Zero
    /\ s = -1
    /\ g1 = <<>> /\ l1 = <<>> /\ P = <<>>
    /\ trace = NoTrace
    /\ sim = NoSim

\* Chp20_Sec3_Economy.__init__: no argument is checked.  The only failure is
\* Python's ZeroDivisionError when 1 - lamb**ny is 0.
Construct ==
    /\ pc = "new"
    /\ \E a \in Arguments :
        /\ args' = a
        /\ IF PiDenominator(a).n = 0
           THEN /\ pc' = "error"
                /\ UNCHANGED model
           ELSE LET yb == linspace(a.ymin, a.ymax, a.ny)
                    pw == piWeights(a)
                IN  /\ pc' = "built"
                    /\ beta' = a.beta
                    /\ gamma' = a.gamma
                    /\ ybar' = yb
                    /\ pi_y' = pw
                    /\ v_aut' = autarky(a, yb, pw)
                    /\ c_complete_markets' = dot(pw, yb, 0, a.ny - 1)
    /\ UNCHANGED <<s, g1, l1, P, trace, sim>>

----------------------------------------------------------------------------
(* The model object's methods.                                              *)

nstates == Cardinality(DOMAIN ybar)     \* ybar.size
top == nstates - 1                      \* the index -1 of the code

\* v(self, c, w): self.u(c) + self.beta*w
v(c, w) == RAdd(u(gamma, c), RMul(beta, w))

\* participation_constraint(self, c, w, st): v_stay >= v_exit
participation_constraint(c, w, st) ==
    LET ybars  == ybar[st]
        v_stay == v(c, w)
        v_exit == v(Num(ybars), v_aut)
    IN  RGe(v_stay, v_exit)

----------------------------------------------------------------------------
(* Linear forms c + SUM_j k[j]*g1[j]: the lender's values.                  *)

LConst(r) == [c |-> r, k |-> [j \in 0..top |-> Zero]]
LAtom(i)  == [c |-> Zero, k |-> [j \in 0..top |-> IF j = i THEN One ELSE Zero]]
LAdd(f, h) == [c |-> RAdd(f.c, h.c), k |-> [j \in 0..top |-> RAdd(f.k[j], h.k[j])]]
LScale(r, f) == [c |-> RMul(r, f.c), k |-> [j \in 0..top |-> RMul(r, f.k[j])]]
LSub(f, h) == LAdd(f, LScale(RNeg(One), h))

RECURSIVE LSum(_, _, _)
LSum(f, lo, hi) == IF lo > hi THEN LConst(Zero) ELSE LAdd(f[lo], LSum(f, lo + 1, hi))

\* np.dot of a rational array with an array of linear forms
ldot(a, f, lo, hi) == LSum([j \in lo..hi |-> LScale(a[j], f[j])], lo, hi)

----------------------------------------------------------------------------
(* solve(): the agent's pass (lines 76-98), the lender's pass (100-119).    *)

\* What np.empty may hold: the buffers start with arbitrary contents.
JunkFloats == {Zero, RNeg(One)}

\* A loop that starts one state too low: range(nstates-3, -1, -1).
LoopStartLow(n) == n - 3

\* range(nstates-2, -1, -1) starts here
LoopStart(n) == n - 2

\* l1[-1] = v(ybar[-1], v_aut)
l1Terminal == v(Num(ybar[top]), v_aut)

\* The terminal consumption with the discount factor's sign flipped.
g1TerminalPlus(l1top) == uinv(gamma, RMul(RAdd(One, beta), l1top))

\* g1[-1] = uinv((1-beta)*l1[-1])
g1Terminal(l1top) == uinv(gamma, RMul(RSub(One, beta), l1top))

\* l1[s] = pi1j*v_exit + jp1_S_terms
l1Closed(pi1j, v_exit, jp1_S_terms) == RAdd(RMul(pi1j, v_exit), jp1_S_terms)

\* The closed form with 1 + beta*pi1j in place of 1 - beta*pi1j.
g1ClosedPlus(l1s, pi1j, jp1_S_terms) ==
    uinv(gamma,
         RDiv(RSub(RMul(l1s, RAdd(One, RMul(beta, pi1j))), jp1_S_terms), pi1j))

\* g1[s] = uinv((l1[s]*(1-beta*pi1j) - jp1_S_terms)/(pi1j))
g1Closed(l1s, pi1j, jp1_S_terms) ==
    uinv(gamma,
         RDiv(RSub(RMul(l1s, RSub(One, RMul(beta, pi1j))), jp1_S_terms), pi1j))

\* P[-1] = 1/(1-beta) * np.dot(pi_y, ybar - g1[-1])
PTerminal ==
    LScale(RDiv(One, RSub(One, beta)),
           ldot(pi_y, [j \in 0..top |-> LSub(LConst(ybar[j]), LAtom(top))], 0, top))

\* The lender's closed form with the continuation left undiscounted.
PClosedUndiscounted(low_flow, high_flow, high_cont, pi1j) ==
    LScale(RDiv(One, RSub(One, RMul(beta, pi1j))),
           LAdd(LAdd(low_flow, high_flow), high_cont))

\* P[s] = ((low_flow + high_flow) + beta*high_cont)/(1 - beta*pi1j)
PClosed(low_flow, high_flow, high_cont, pi1j) ==
    LScale(RDiv(One, RSub(One, RMul(beta, pi1j))),
           LAdd(LAdd(low_flow, high_flow), LScale(beta, high_cont)))

\* The number of writes an entry of a buffer has received.
Writes(rd) ==
    CASE rd[1] = "g1" -> trace.wg1[rd[2]]
      [] rd[1] = "l1" -> trace.wl1[rd[2]]
      [] rd[1] = "P"  -> trace.wP[rd[2]]

\* Whether a step reads an entry nobody has written: reads are the entries
\* the step reads, fresh those it wrote itself before reading them.
ReadsUninit(reads, fresh) == \E rd \in reads \ fresh : Writes(rd) = 0

\* Lines 76-84: allocate g1 and l1, solve the top state.
AgentTerminal ==
    /\ pc = "built"
    /\ \E junk \in JunkFloats :
        LET g0 == [j \in 0..top |-> Num(junk)]
            l0 == [j \in 0..top |-> junk]
            lt == l1Terminal
        IN  /\ l1' = [l0 EXCEPT ![top] = lt]
            /\ g1' = [g0 EXCEPT ![top] = g1Terminal(lt)]
    /\ trace' = [NoTrace EXCEPT
                    !.agent = 1, !.pass = "agent", !.step = top,
                    !.reads = {<<"l1", top>>}, !.fresh = {<<"l1", top>>},
                    !.wg1 = [j \in 0..top |-> IF j = top THEN 1 ELSE 0],
                    !.wl1 = [j \in 0..top |-> IF j = top THEN 1 ELSE 0],
                    !.wP  = [j \in 0..top |-> 0]]
    /\ s' = LoopStart(nstates)
    /\ pc' = "agent"
    /\ UNCHANGED <<args, model, P, sim>>

\* Lines 86-98: one iteration of the agent's loop.
AgentStep ==
    /\ pc = "agent"
    /\ s >= 0
    /\ LET v_exit == v(Num(ybar[s]), v_aut)
           jp1_S_terms == dot(pi_y, [j \in (s + 1)..top |-> v(g1[j], l1[j])], s + 1, top)
           pi1j == RSum(pi_y, 0, s)
           l1s == l1Closed(pi1j, v_exit, jp1_S_terms)
           reads == {<<"g1", j>> : j \in (s + 1)..top}
                      \cup {<<"l1", j>> : j \in (s + 1)..top} \cup {<<"l1", s>>}
           fresh == {<<"l1", s>>}
       IN  /\ l1' = [l1 EXCEPT ![s] = l1s]
           /\ g1' = [g1 EXCEPT ![s] = g1Closed(l1s, pi1j, jp1_S_terms)]
           /\ trace' = [trace EXCEPT
                           !.agent = @ + 1, !.step = s,
                           !.reads = reads, !.fresh = fresh,
                           !.uninit = @ \/ ReadsUninit(reads, fresh),
                           !.wg1[s] = @ + 1, !.wl1[s] = @ + 1]
    /\ s' = s - 1
    /\ UNCHANGED <<pc, args, model, P, sim>>

\* Lines 100-104: allocate P, solve the top state.
LenderTerminal ==
    /\ pc = "agent"
    /\ s < 0
    /\ \E junk \in JunkFloats :
        P' = [[j \in 0..top |-> LConst(junk)] EXCEPT ![top] = PTerminal]
    /\ trace' = [trace EXCEPT
                    !.lender = 1, !.pass = "lender", !.step = top,
                    !.reads = {<<"g1", top>>}, !.fresh = {},
                    !.uninit = @ \/ ReadsUninit({<<"g1", top>>}, {}),
                    !.wP[top] = @ + 1]
    /\ s' = LoopStart(nstates)
    /\ pc' = "lender"
    /\ UNCHANGED <<args, model, g1, l1, sim>>

\* Lines 105-119: one iteration of the lender's loop.
LenderStep ==
    /\ pc = "lender"
    /\ s >= 0
    /\ LET ck == LAtom(s)
           pi1j == RSum(pi_y, 0, s)
           low_flow == ldot(pi_y, [j \in 0..s |-> LSub(LConst(ybar[j]), ck)], 0, s)
           high_flow == ldot(pi_y, [j \in (s + 1)..top |-> LSub(LConst(ybar[j]), LAtom(j))],
                             s + 1, top)
           high_cont == ldot(pi_y, P, s + 1, top)
           reads == {<<"g1", j>> : j \in s..top} \cup {<<"P", j>> : j \in (s + 1)..top}
       IN  /\ P' = [P EXCEPT ![s] = PClosed(low_flow, high_flow, high_cont, pi1j)]
           /\ trace' = [trace EXCEPT
                           !.lender = @ + 1, !.step = s,
                           !.reads = reads, !.fresh = {},
                           !.uninit = @ \/ ReadsUninit(reads, {}),
                           !.wP[s] = @ + 1]
    /\ s' = s - 1
    /\ UNCHANGED <<pc, args, model, g1, l1, sim>>

\* Line 121: return g1, l1, P
SolveReturn ==
    /\ pc = "lender"
    /\ s < 0
    /\ pc' = "solved"
    /\ UNCHANGED <<args, model, s, g1, l1, P, trace, sim>>

----------------------------------------------------------------------------
(* simulate() and fix_indexes.                                              *)

\* The repair left out: the policy index is the drawn index.
FixedAtRaw(cind, prev_max) == cind

\* prev_max never updated: the else branch forgets prev_max = cind.
NextMaxStale(cind, prev_max) == prev_max

\* fixed[t] of fix_indexes: held at prev_max unless cind is above it
FixedAt(cind, prev_max) == IF cind <= prev_max THEN prev_max ELSE cind

\* prev_max after the iteration: updated only in the else branch
NextMax(cind, prev_max) == IF cind <= prev_max THEN prev_max ELSE cind

\* for t in range(T): the loop of fix_indexes from iteration t on
RECURSIVE FixLoop(_, _, _, _, _)
FixLoop(t, T, realized, fixed, prev_max) ==
    IF t >= T THEN fixed
    ELSE LET cind == realized[t]
         IN  FixLoop(t + 1, T, realized,
                     [fixed EXCEPT ![t] = FixedAt(cind, prev_max)],
                     NextMax(cind, prev_max))

\* fix_indexes(nstates, T, realized, fixed): fixed as the call leaves it
fix_indexes(n, T, realized, fixed) == FixLoop(0, T, realized, fixed, 0)

\* What np.empty(T, dtype=int) may hold.
JunkInts == {0, 9}

\* The income path read at the repaired indexes instead of the drawn ones.
IncomePathFixed(T, y_indexes, pol_indexes) == [t \in 0..(T - 1) |-> ybar[pol_indexes[t]]]

\* y = ybar[y_indexes]
IncomePath(T, y_indexes, pol_indexes) == [t \in 0..(T - 1) |-> ybar[y_indexes[t]]]

\* simulate(self, g1, l1, T) called with the first glen entries of g1 and
\* the first llen entries of l1, when d.draw(T) returns y_indexes.  A
\* negative T makes the draw raise; an index past the end of a policy array
\* makes the fancy indexing raise.
SimulateOutcome(T, glen, llen, y_indexes, junk) ==
    IF T < 0
    THEN [NoSim EXCEPT !.T = T, !.glen = glen, !.llen = llen, !.res = "ValueError"]
    ELSE LET ns == nstates
             pol_indexes == fix_indexes(ns, T, y_indexes, [t \in 0..(T - 1) |-> junk])
             called == [NoSim EXCEPT !.T = T, !.glen = glen, !.llen = llen,
                                     !.realized = y_indexes, !.fixed = pol_indexes]
         IN  IF \E t \in 0..(T - 1) : pol_indexes[t] >= glen \/ pol_indexes[t] >= llen
             THEN [called EXCEPT !.res = "IndexError"]
             ELSE [called EXCEPT
                      !.res = "ok",
                      !.c = [t \in 0..(T - 1) |-> g1[pol_indexes[t]]],
                      !.w = [t \in 0..(T - 1) |-> l1[pol_indexes[t]]],
                      !.y = IncomePath(T, y_indexes, pol_indexes)]

\* A simulate that writes the consumption path back into the policy array.
SimulateCallInPlace(T, glen, llen, y_indexes, junk) ==
    /\ sim' = SimulateOutcome(T, glen, llen, y_indexes, junk)
    /\ g1' = [j \in DOMAIN g1 |-> g1[top]]
    /\ UNCHANGED <<args, model, s, l1, P, trace>>

\* One call of simulate: it only builds and returns new arrays.
SimulateCall(T, glen, llen, y_indexes, junk) ==
    /\ sim' = SimulateOutcome(T, glen, llen, y_indexes, junk)
    /\ UNCHANGED <<args, model, s, g1, l1, P, trace>>

Simulate ==
    /\ pc = "solved"
    /\ \E T \in -1..MaxT, glen \in {nstates - 1, nstates}, llen \in {nstates - 1, nstates},
          junk \in JunkInts :
        \E y_indexes \in [0..(T - 1) -> 0..top] :
            SimulateCall(T, glen, llen, y_indexes, junk)
    /\ pc' = "simulated"

\* The caller takes the paths and goes on to its next call (the loop over
\* npaths of Figure_20_2_1a).
Discard ==
    /\ pc = "simulated"
    /\ pc' = "solved"
    /\ sim' = NoSim
    /\ UNCHANGED <<args, model, s, g1, l1, P, trace>>

Next ==
    \/ Construct
    \/ AgentTerminal
    \/ AgentStep
    \/ LenderTerminal
    \/ LenderStep
    \/ SolveReturn
    \/ Simulate
    \/ Discard

Spec == Init /\ [][Next]_vars

----------------------------------------------------------------------------
(* Properties.                                                              *)

Solved == pc \in {"solved", "simulated"}
Built  == pc \in {"built", "agent", "lender", "solved", "simulated"}

\* max(drawn[0], ..., drawn[t])
MaxUpTo(drawn, t) ==
    CHOOSE mx \in {drawn[i] : i \in 0..t} : \A i \in 0..t : drawn[i] <= mx

\* C1: after fix_indexes has run on a horizon T >= 1, the effective index at
\* every t is the running maximum of the indexes drawn up to t.
C1_RunningMaximum ==
    (sim.res \in {"ok", "IndexError"} /\ sim.T >= 1) =>
        \A t \in 0..(sim.T - 1) : sim.fixed[t] = MaxUpTo(sim.realized, t)

\* A path whose first draw is 0, followed by a record and a lower draw.
C1_Witness ==
    /\ sim.res = "ok" /\ sim.T = 3
    /\ sim.realized[0] = 0 /\ sim.realized[1] = 2 /\ sim.realized[2] = 1
    /\ sim.fixed[0] = 0 /\ sim.fixed[2] = 2

\* C2: for the policies solve() returns on valid parameters, the
\* participation constraint holds at every state below the top one.
C2_Participation ==
    (pc = "solved" /\ ValidArguments(args)) =>
        \A st \in 0..(top - 1) : participation_constraint(g1[st], l1[st], st)

C2_Witness == pc = "solved" /\ ValidArguments(args) /\ nstates = 3 /\ args.gamma = R(2)

\* C3: at the top state l1 is the value of consuming the top income and
\* reverting to autarky, g1 is uinv((1-beta)*l1), and the contract's value
\* v(g1, l1) equals l1.
C3_TerminalIndifference ==
    pc = "solved" =>
        /\ l1[top] = v(Num(ybar[top]), v_aut)
        /\ g1[top] = uinv(gamma, RMul(RSub(One, beta), l1[top]))
        /\ v(g1[top], l1[top]) = l1[top]

C3_Witness == pc = "solved" /\ ValidArguments(args) /\ nstates = 2 /\ args.beta = Rat(3, 4)

\* C4: a simulate call with T > 0 and full-length policies returns; what it
\* returns has length T, consumption and promised value read at the running
\* maximum of the draws, income read at the raw draw.
C4_SimulatedPaths ==
    /\ (pc = "simulated" /\ sim.T > 0 /\ sim.glen = nstates /\ sim.llen = nstates)
          => sim.res = "ok"
    /\ (sim.res = "ok" /\ sim.T > 0) =>
          /\ DOMAIN sim.c = 0..(sim.T - 1)
          /\ DOMAIN sim.w = 0..(sim.T - 1)
          /\ DOMAIN sim.y = 0..(sim.T - 1)
          /\ \A t \in 0..(sim.T - 1) :
                /\ sim.c[t] = g1[MaxUpTo(sim.realized, t)]
                /\ sim.w[t] = l1[MaxUpTo(sim.realized, t)]
                /\ sim.y[t] = ybar[sim.realized[t]]

\* A returned path on which the income drawn falls below the effective state.
C4_Witness ==
    /\ sim.res = "ok" /\ sim.T = 2 /\ nstates = 3
    /\ sim.realized[0] = 2 /\ sim.realized[1] = 0
    /\ sim.y[1] = ybar[0] /\ sim.c[1] = g1[2]

\* C5: no model object is ever built from invalid arguments.
C5_InvalidRejected == Built => ValidArguments(args)

\* C6: simulate ends in an error whenever T <= 0 or a policy array is
\* shorter than ny, whatever is drawn (stated for a model built from valid
\* arguments).
C6_PreconditionError ==
    (/\ ValidArguments(args)
     /\ sim.res # "none"
     /\ (sim.T <= 0 \/ sim.glen < nstates \/ sim.llen < nstates))
        => sim.res \in {"ValueError", "IndexError"}

\* C7: a step taken after solve() has returned (a simulate call, the caller
\* going on) changes neither the policies nor a field of the model; a step of
\* solve() changes none of ybar, pi_y, v_aut, c_complete_markets; and
\* c_complete_markets stays the pi_y-weighted sum of ybar.
C7_Frame ==
    [][ /\ Solved => UNCHANGED <<g1, l1, ybar, pi_y, beta, gamma, v_aut,
                                 c_complete_markets>>
        /\ pc \in {"built", "agent", "lender"}
              => UNCHANGED <<ybar, pi_y, v_aut, c_complete_markets>>
        /\ Built =>
              c_complete_markets' =
                  dot(pi_y', ybar', 0, Cardinality(DOMAIN ybar') - 1) ]_vars

C7_Witness == pc = "simulated" /\ sim.res = "ok" /\ sim.T = 1 /\ nstates = 2

\* C8: on valid parameters g1 and l1 are non-decreasing in the state, so a
\* simulated path never falls, and it moves at t only when the draw at t is
\* strictly above every earlier draw.
C8_Ratchet ==
    (Solved /\ ValidArguments(args)) =>
        /\ pc = "solved" =>
              \A j \in 0..(top - 1) :
                 CLe(gamma, g1[j], g1[j + 1]) /\ RLe(l1[j], l1[j + 1])
        /\ sim.res = "ok" =>
              \A t \in 1..(sim.T - 1) :
                 /\ RLe(sim.w[t - 1], sim.w[t])
                 /\ CLe(gamma, sim.c[t - 1], sim.c[t])
                 /\ (sim.w[t] # sim.w[t - 1] \/ ~CEq(gamma, sim.c[t], sim.c[t - 1]))
                       => \A i \in 0..(t - 1) : sim.realized[t] > sim.realized[i]

\* A path with a draw below the running maximum and then a new record.
C8_Witness ==
    /\ ValidArguments(args) /\ sim.res = "ok" /\ sim.T = 3
    /\ sim.realized[0] = 1 /\ sim.realized[1] = 0 /\ sim.realized[2] = 2
    /\ sim.w[1] = sim.w[0] /\ sim.w[2] # sim.w[1]

AgentPassDone  == pc \in {"lender", "solved", "simulated"} \/ (pc = "agent" /\ s < 0)
LenderPassDone == pc \in {"solved", "simulated"} \/ (pc = "lender" /\ s < 0)

\* The parts of C9 that concern termination and writes: each pass takes
\* exactly ny steps and writes every entry of its buffers exactly once.
PassesExact ==
    /\ \A j \in DOMAIN trace.wg1 :
          trace.wg1[j] <= 1 /\ trace.wl1[j] <= 1 /\ trace.wP[j] <= 1
    /\ AgentPassDone =>
          /\ trace.agent = nstates
          /\ \A j \in 0..top : trace.wg1[j] = 1 /\ trace.wl1[j] = 1
    /\ LenderPassDone =>
          /\ trace.lender = nstates
          /\ \A j \in 0..top : trace.wP[j] = 1

\* C9 as amended: for ny >= 2 each pass takes exactly ny steps and writes
\* every entry once; the step for state st reads entries j >= st only, those
\* with j > st written in an earlier step, those with j = st being l1[st],
\* which the step has just written, or g1[st] in the lender's pass, which
\* the agent's pass wrote; no uninitialised entry is read.
C9_BackwardPasses ==
    (nstates >= 2 /\ pc \in {"agent", "lender", "solved"}) =>
        /\ PassesExact
        /\ ~trace.uninit
        /\ \A rd \in trace.reads :
              /\ rd[2] >= trace.step
              /\ rd[2] > trace.step => (rd \notin trace.fresh /\ Writes(rd) = 1)
              /\ rd[2] = trace.step =>
                    \/ rd \in trace.fresh /\ rd[1] = "l1"
                    \/ trace.pass = "lender" /\ rd[1] = "g1" /\ Writes(rd) = 1

C9_Witness == pc = "solved" /\ nstates = 3 /\ trace.lender = 3 /\ trace.agent = 3

\* C9 as stated: the step for state st reads only entries j > st that an
\* earlier step wrote.
C9_ReadsOnlyAbove ==
    (nstates >= 2 /\ pc \in {"agent", "lender", "solved"}) =>
        /\ PassesExact
        /\ ~trace.uninit
        /\ \A rd \in trace.reads :
              rd[2] > trace.step /\ rd \notin trace.fresh /\ Writes(rd) = 1

\* The right-hand side of the lender's equation at state st.
LenderEquation(st) ==
    LAdd(ldot(pi_y,
              [j \in 0..st |->
                  LAdd(LSub(LConst(ybar[j]), LAtom(st)), LScale(beta, P[st]))],
              0, st),
         ldot(pi_y,
              [j \in (st + 1)..top |->
                  LAdd(LSub(LConst(ybar[j]), LAtom(j)), LScale(beta, P[j]))],
              st + 1, top))

\* C10: the lender's values solve P[st] = SUM_{j<=st} pi_y[j]*(ybar[j] -
\* g1[st] + beta*P[st]) + SUM_{j>st} pi_y[j]*(ybar[j] - g1[j] + beta*P[j])
\* at every state, and the closed form at the top state is that equation.
C10_LenderFixedPoint ==
    pc = "solved" =>
        /\ \A st \in 0..top : P[st] = LenderEquation(st)
        /\ P[top] = LScale(RDiv(One, RSub(One, beta)),
                           LSum([j \in 0..top |->
                                    LScale(pi_y[j], LSub(LConst(ybar[j]), LAtom(top)))],
                                0, top))

C10_Witness == pc = "solved" /\ nstates = 3 /\ args.lamb = Rat(1, 2) /\ P[0].k[2] # Zero
====
